---- MODULE Spec2Model ----
(***************************************************************************)
(* The list lifecycle of the todos application: the App component          *)
(* (src/src/App.tsx) with its selector view (src/src/component/            *)
(* OpenList.tsx), the promises of its backend commands, and the backend    *)
(* that answers them.                                                      *)
(*                                                                         *)
(* Every invoke() is a record in `calls`: "sent" until the backend has     *)
(* executed it, then "ok" or "err" until the frontend has run the          *)
(* promise's callbacks.  The backend runs its commands as independent      *)
(* asynchronous tasks: the calls that are sent are executed in any order,  *)
(* each atomically, and the settled promises are handled in any order.     *)
(* The callbacks of one settled promise run as consecutive microtasks, so  *)
(* each promise's chain of then() handlers is one step.                    *)
(***************************************************************************)
EXTENDS Integers, Sequences, FiniteSets, TLC

\* ------------------------------------------------------------ bounds
\* inputs of one session: the lifecycle operations the user issues and the
\* edits made to documents (here or merged from a remote peer)
MaxInputs == 2
\* a session that switches lists: the lists the user opens and the edits made
MaxSwitchOps == 2
MaxSwitchEdits == 1

\* ------------------------------------------------------------ values
None == 0

\* names the user types into the "new todo list name" input
CreateNames == {"", "a", "c"}
\* strings the user types into the ticket input: empty, malformed, valid
TicketInputs == {"", "bad", "tk"}

\* documents: 1 and 2 are registered from an earlier session, 3 is the one
\* created in this session, 4 is the remote document the ticket "tk" names
Docs == 1 .. 4
CreatedDoc == 3
RemoteDoc == 4
RemoteName == "d"
\* documents other peers hold and edit
SharedDocs == {1, 2, RemoteDoc}

Items == Docs \X (1 .. 3)

NoRes == [doc |-> None, items |-> {}, name |-> "", lists |-> <<>>]

LifecycleCmds == {"new_list", "open_list", "set_ticket"}

VARIABLES
  name,          \* App.tsx:13  displayed list name
  showOpenList,  \* App.tsx:14  TRUE: selector view, FALSE: list-detail view
  allTodos,      \* App.tsx:11  the todos store (allTodosAtom)
  todoLists,     \* App.tsx:15  names offered by the selector
  calls,         \* invoke() promises not yet settled and handled
  events,        \* 'update-all' events emitted and not yet delivered
  registry,      \* backend: sequence of <<name, document>>
  active,        \* backend: the active document, None before the first
  content,       \* backend: the todos of each document
  ops,           \* history: the lifecycle operations issued, in order
  shownDoc,      \* history: the document the todos store was fetched from
  viewBy,        \* history: what kind of chain switched the view to viewing
  nameBy,        \* history: the kinds of chain that changed the displayed name
  nEvents,       \* history: 'update-all' events delivered so far
  nEdits         \* history: edits made so far

vars == <<name, showOpenList, allTodos, todoLists, calls, events, registry,
          active, content, ops, shownDoc, viewBy, nameBy, nEvents, nEdits>>

feVars == <<name, showOpenList, allTodos, todoLists>>
beVars == <<registry, active, content>>
histVars == <<shownDoc, viewBy, nameBy>>

\* ------------------------------------------------------------ backend
\* (the Rust side of the commands is not among the sources: these follow
\* sections 4.2 and 4.3 of the specification)

RegNames(reg) == {reg[i][1] : i \in 1 .. Len(reg)}
RegDocs(reg) == {reg[i][2] : i \in 1 .. Len(reg)}

Lookup(reg, n) ==
  IF n \in RegNames(reg)
  THEN reg[CHOOSE i \in 1 .. Len(reg) : reg[i][1] = n][2]
  ELSE None

NameOf(reg, d) ==
  IF d \in RegDocs(reg)
  THEN reg[CHOOSE i \in 1 .. Len(reg) : reg[i][2] = d][1]
  ELSE ""

ListAll(reg) == [i \in 1 .. Len(reg) |-> reg[i][1]]

\* register(name, document): refused when the name is bound to another
\* document, a no-op when the pair is already there
RegisterOk(reg, n, d) == Lookup(reg, n) \in {None, d}
Register(reg, n, d) == IF Lookup(reg, n) = d THEN reg ELSE Append(reg, <<n, d>>)

\* ------------------------------------------------------------ promises
Call(origin, cmd, arg) ==
  [origin |-> origin, cmd |-> cmd, arg |-> arg, stage |-> "sent", res |-> NoRes]

Settle(c, stage, res) == [c EXCEPT !.stage = stage, !.res = res]

OpOf(c) == IF c.origin[1] = "op" THEN c.origin[2] ELSE 0
KindOf(c) == c.origin[1]

\* a lifecycle operation is in flight while one of its promises is pending
OpBusy(i) == \E c \in calls : OpOf(c) = i
AnyOpBusy == \E c \in calls : OpOf(c) # 0

OpRec(kind, arg, res) ==
  [kind |-> kind, arg |-> arg, res |-> res, wrote |-> FALSE,
   overlap |-> AnyOpBusy, movedTo |-> None]

SetRes(c, r) ==
  IF OpOf(c) # 0 THEN [ops EXCEPT ![OpOf(c)].res = r] ELSE ops

Range(s) == {s[i] : i \in 1 .. Len(s)}

\* ------------------------------------------------------------ frontend
\* getTodos(): the promise of get_todos, for the chain `origin` started
GetTodos(origin) == Call(origin, "get_todos", "")

\* createList without its check of the name's length
CreateListUnguarded(n) ==
  /\ ops' = Append(ops, OpRec("create", n, "pending"))
  /\ calls' = calls \cup {Call(<<"op", Len(ops) + 1, "cmd">>, "new_list", n)}

\* createList(name)
CreateList(n) ==
  IF n = ""
  THEN /\ ops' = Append(ops, OpRec("create", n, "void"))
       /\ UNCHANGED calls
  ELSE /\ ops' = Append(ops, OpRec("create", n, "pending"))
       /\ calls' = calls \cup {Call(<<"op", Len(ops) + 1, "cmd">>, "new_list", n)}

\* openList(name)
OpenList(n) ==
  IF n = ""
  THEN /\ ops' = Append(ops, OpRec("open", n, "void"))
       /\ UNCHANGED calls
  ELSE /\ ops' = Append(ops, OpRec("open", n, "pending"))
       /\ calls' = calls \cup {Call(<<"op", Len(ops) + 1, "cmd">>, "open_list", n)}

\* setTicket(ticket)
SetTicket(i, t) == Call(<<"op", i, "cmd">>, "set_ticket", t)

\* joinList(ticket): setTicket(ticket), then getTodos() at once
JoinList(t) ==
  IF t = ""
  THEN /\ ops' = Append(ops, OpRec("join", t, "void"))
       /\ UNCHANGED calls
  ELSE /\ ops' = Append(ops, OpRec("join", t, "pending"))
       /\ calls' = calls \cup {SetTicket(Len(ops) + 1, t),
                               GetTodos(<<"op", Len(ops) + 1, "eager">>)}

\* The selector is rendered only while showOpenList holds; its three links
\* call createList, openList and joinList.
UserCreate ==
  /\ showOpenList
  /\ Len(ops) + nEdits < MaxInputs
  /\ \E n \in CreateNames : CreateList(n)
  /\ UNCHANGED <<feVars, beVars, histVars, events, nEvents, nEdits>>

\* onOpenList: the chosen value is one of the options, the names in todoLists
UserOpen ==
  /\ showOpenList
  /\ Len(ops) + nEdits < MaxInputs
  /\ \E n \in Range(todoLists) : n # "" /\ OpenList(n)
  /\ UNCHANGED <<feVars, beVars, histVars, events, nEvents, nEdits>>

UserJoin ==
  /\ showOpenList
  /\ Len(ops) + nEdits < MaxInputs
  /\ \E t \in TicketInputs : JoinList(t)
  /\ UNCHANGED <<feVars, beVars, histVars, events, nEvents, nEdits>>

\* a fulfilled lifecycle command whose then() does not call getTodos()
LifecycleResolvedNoRefresh(c) ==
  /\ c.cmd \in LifecycleCmds
  /\ c.stage = "ok"
  /\ calls' = calls \ {c}
  /\ UNCHANGED <<feVars, beVars, histVars, ops, events, nEvents, nEdits>>

\* .then(() => getTodos()) of new_list, open_list and set_ticket
LifecycleResolved(c) ==
  /\ c.cmd \in LifecycleCmds
  /\ c.stage = "ok"
  /\ calls' = (calls \ {c}) \cup {GetTodos(<<"op", OpOf(c), "then">>)}
  /\ UNCHANGED <<feVars, beVars, histVars, ops, events, nEvents, nEdits>>

\* a rejected get_todos that still reaches setShowOpenList(false)
InvokeRejectedShowsList(c) ==
  /\ c.stage = "err"
  /\ calls' = calls \ {c}
  /\ showOpenList' = IF c.cmd = "get_todos" THEN FALSE ELSE showOpenList
  /\ UNCHANGED <<name, allTodos, todoLists, beVars, histVars, ops, events,
                 nEvents, nEdits>>

\* a rejected lifecycle command that still calls getTodos()
InvokeRejectedRefreshes(c) ==
  /\ c.stage = "err"
  /\ calls' = IF c.cmd \in LifecycleCmds
              THEN (calls \ {c}) \cup {GetTodos(<<"op", OpOf(c), "then">>)}
              ELSE calls \ {c}
  /\ UNCHANGED <<feVars, beVars, histVars, ops, events, nEvents, nEdits>>

\* a rejection that brings the selector back
InvokeRejectedReturnsToSelector(c) ==
  /\ c.stage = "err"
  /\ calls' = calls \ {c}
  /\ showOpenList' = TRUE
  /\ UNCHANGED <<name, allTodos, todoLists, beVars, histVars, ops, events,
                 nEvents, nEdits>>

\* a rejected get_todos after which get_list_name is still invoked
InvokeRejectedContinues(c) ==
  /\ c.stage = "err"
  /\ calls' = IF c.cmd = "get_todos"
              THEN (calls \ {c}) \cup {Call(c.origin, "get_list_name", "")}
              ELSE calls \ {c}
  /\ UNCHANGED <<feVars, beVars, histVars, ops, events, nEvents, nEdits>>

\* a rejected promise: none of the chains has a rejection handler
InvokeRejected(c) ==
  /\ c.stage = "err"
  /\ calls' = calls \ {c}
  /\ UNCHANGED <<feVars, beVars, histVars, ops, events, nEvents, nEdits>>

JoinPending(i) ==
  \E k \in calls : OpOf(k) = i /\ k.cmd = "set_ticket" /\ k.stage = "sent"

\* history of a write to the session made by the chain of promise c
Wrote(c, changed, doc) ==
  [i \in 1 .. Len(ops) |->
     [ops[i] EXCEPT
        !.wrote = @ \/ (i = OpOf(c) /\ changed),
        !.movedTo =
          IF /\ ops[i].kind = "join" /\ @ = None /\ JoinPending(i)
             /\ doc # None /\ OpOf(c) # 0 /\ OpOf(c) # i
             /\ ops[OpOf(c)].kind \in {"create", "open"}
          THEN doc ELSE @]]

\* a fulfilled get_todos whose result is not stored before the view is shown
GetTodosResolvedNoStore(c) ==
  /\ c.cmd = "get_todos"
  /\ c.stage = "ok"
  /\ calls' = (calls \ {c}) \cup {Call(c.origin, "get_list_name", "")}
  /\ showOpenList' = FALSE
  /\ shownDoc' = c.res.doc
  /\ viewBy' = IF showOpenList THEN KindOf(c) ELSE viewBy
  /\ ops' = Wrote(c, showOpenList, c.res.doc)
  /\ UNCHANGED <<name, allTodos, todoLists, beVars, nameBy, events, nEvents,
                 nEdits>>

\* getTodos, get_todos fulfilled: setAllTodos(res); then get_list_name is
\* invoked and not waited for; then setShowOpenList(false)
GetTodosResolved(c) ==
  /\ c.cmd = "get_todos"
  /\ c.stage = "ok"
  /\ allTodos' = c.res.items
  /\ calls' = (calls \ {c}) \cup {Call(c.origin, "get_list_name", "")}
  /\ showOpenList' = FALSE
  /\ shownDoc' = c.res.doc
  /\ viewBy' = IF showOpenList THEN KindOf(c) ELSE viewBy
  /\ ops' = Wrote(c, showOpenList \/ allTodos # c.res.items, c.res.doc)
  /\ UNCHANGED <<name, todoLists, beVars, nameBy, events, nEvents, nEdits>>

\* getTodos, get_list_name fulfilled: setName(res)
GetListNameResolved(c) ==
  /\ c.cmd = "get_list_name"
  /\ c.stage = "ok"
  /\ name' = c.res.name
  /\ calls' = calls \ {c}
  /\ nameBy' = IF name # c.res.name THEN nameBy \cup {KindOf(c)} ELSE nameBy
  /\ ops' = Wrote(c, name # c.res.name, None)
  /\ UNCHANGED <<showOpenList, allTodos, todoLists, beVars, shownDoc, viewBy,
                 events, nEvents, nEdits>>

\* getTodoLists, get_todo_lists fulfilled: setTodoLists(res)
TodoListsResolved(c) ==
  /\ c.cmd = "get_todo_lists"
  /\ c.stage = "ok"
  /\ todoLists' = c.res.lists
  /\ calls' = calls \ {c}
  /\ UNCHANGED <<name, showOpenList, allTodos, beVars, histVars, ops, events,
                 nEvents, nEdits>>

\* a listener registered twice: every event delivered calls getTodos() twice
ListenUpdateAllTwice ==
  /\ events # <<>>
  /\ events' = Tail(events)
  /\ nEvents' = nEvents + 1
  /\ calls' = calls \cup {GetTodos(<<"ev", nEvents + 1, "run">>),
                          GetTodos(<<"ev", nEvents + 1, "again">>)}
  /\ UNCHANGED <<feVars, beVars, histVars, ops, nEdits>>

\* listen('update-all', ...): every event delivered calls getTodos()
ListenUpdateAll ==
  /\ events # <<>>
  /\ events' = Tail(events)
  /\ nEvents' = nEvents + 1
  /\ calls' = calls \cup {GetTodos(<<"ev", nEvents + 1, "run">>)}
  /\ UNCHANGED <<feVars, beVars, histVars, ops, nEdits>>

\* ------------------------------------------------------------ backend commands
\* the command of promise c ends with `stage` and result `res`
Return(c, stage, res) ==
  /\ calls' = (calls \ {c}) \cup {Settle(c, stage, res)}
  /\ ops' = IF c.cmd \in LifecycleCmds THEN SetRes(c, stage) ELSE ops

\* a create that registers its document without looking for the name
BackendNewListNoDuplicateCheck(c) ==
  /\ c.cmd = "new_list"
  /\ c.stage = "sent"
  /\ IF c.arg = ""
     THEN /\ Return(c, "err", NoRes)
          /\ UNCHANGED <<registry, active>>
     ELSE /\ Return(c, "ok", NoRes)
          /\ registry' = Append(registry, <<c.arg, CreatedDoc>>)
          /\ active' = CreatedDoc
  /\ UNCHANGED <<feVars, histVars, content, events, nEvents, nEdits>>

\* create(name): InvalidName, DuplicateName (the name is taken: a create always
\* brings a document of its own, which is then abandoned),
\* or the new document is registered and becomes the active one
BackendNewList(c) ==
  /\ c.cmd = "new_list"
  /\ c.stage = "sent"
  /\ IF c.arg = "" \/ c.arg \in RegNames(registry)
     THEN /\ Return(c, "err", NoRes)
          /\ UNCHANGED <<registry, active>>
     ELSE /\ Return(c, "ok", NoRes)
          /\ registry' = Register(registry, c.arg, CreatedDoc)
          /\ active' = CreatedDoc
  /\ UNCHANGED <<feVars, histVars, content, events, nEvents, nEdits>>

\* open(name): NotFound, DocumentUnavailable, or the document becomes active
BackendOpenList(c) ==
  /\ c.cmd = "open_list"
  /\ c.stage = "sent"
  /\ \/ /\ Lookup(registry, c.arg) # None
        /\ Return(c, "ok", NoRes)
        /\ active' = Lookup(registry, c.arg)
     \/ /\ Return(c, "err", NoRes)
        /\ UNCHANGED active
  /\ UNCHANGED <<feVars, histVars, registry, content, events, nEvents, nEdits>>

\* decode(ticket): the document a well-formed ticket names, None (MalformedTicket)
\* for any other string
Decode(t) == IF t = "tk" THEN RemoteDoc ELSE None

\* join(ticket): MalformedTicket, UnreachablePeers, DuplicateName, or the
\* document is synced, registered under its own name (once) and made active
BackendSetTicket(c) ==
  /\ c.cmd = "set_ticket"
  /\ c.stage = "sent"
  /\ \/ /\ Decode(c.arg) # None
        /\ \/ Decode(c.arg) \in RegDocs(registry)
           \/ RegisterOk(registry, RemoteName, Decode(c.arg))
        /\ Return(c, "ok", NoRes)
        /\ registry' = IF Decode(c.arg) \in RegDocs(registry) THEN registry
                       ELSE Register(registry, RemoteName, Decode(c.arg))
        /\ active' = Decode(c.arg)
     \/ /\ Return(c, "err", NoRes)
        /\ UNCHANGED <<registry, active>>
  /\ UNCHANGED <<feVars, histVars, content, events, nEvents, nEdits>>

\* getAll of the active document; refused while no document is active
BackendGetTodos(c) ==
  /\ c.cmd = "get_todos"
  /\ c.stage = "sent"
  /\ IF active = None
     THEN Return(c, "err", NoRes)
     ELSE Return(c, "ok", [NoRes EXCEPT !.doc = active, !.items = content[active]])
  /\ UNCHANGED <<feVars, histVars, beVars, events, nEvents, nEdits>>

\* the display name of the active document
BackendGetListName(c) ==
  /\ c.cmd = "get_list_name"
  /\ c.stage = "sent"
  /\ IF active = None
     THEN Return(c, "err", NoRes)
     ELSE Return(c, "ok", [NoRes EXCEPT !.name = NameOf(registry, active)])
  /\ UNCHANGED <<feVars, histVars, beVars, events, nEvents, nEdits>>

\* list_all()
BackendGetTodoLists(c) ==
  /\ c.cmd = "get_todo_lists"
  /\ c.stage = "sent"
  /\ Return(c, "ok", [NoRes EXCEPT !.lists = ListAll(registry)])
  /\ UNCHANGED <<feVars, histVars, beVars, events, nEvents, nEdits>>

\* a todo is added to document d: merged from a remote peer when d is shared
\* with one, or added here through the list-detail view when d is the
\* active document; the change notifier emits 'update-all' when d is the
\* active document
EditDoc(d) ==
  /\ d \in RegDocs(registry)
  /\ d \in SharedDocs \/ (~showOpenList /\ d = active)
  /\ nEdits' = nEdits + 1
  /\ content' = [content EXCEPT ![d] = @ \cup {<<d, Cardinality(@) + 1>>}]
  /\ events' = IF d = active THEN Append(events, d) ELSE events
  /\ UNCHANGED <<feVars, histVars, registry, active, calls, ops, nEvents>>

Edit(d) ==
  /\ Len(ops) + nEdits < MaxInputs
  /\ EditDoc(d)

\* ------------------------------------------------------------ specification
Init ==
  /\ name = ""
  /\ showOpenList = TRUE
  /\ allTodos = {}
  /\ todoLists = <<>>
  /\ calls = {Call(<<"mount", 0, "cmd">>, "get_todo_lists", "")}
  /\ events = <<>>
  /\ registry = <<<<"a", 1>>, <<"b", 2>>>>
  /\ active = None
  /\ content = [d \in Docs |-> IF d = CreatedDoc THEN {} ELSE {<<d, 1>>}]
  /\ ops = <<>>
  /\ shownDoc = None
  /\ viewBy = "none"
  /\ nameBy = {}
  /\ nEvents = 0
  /\ nEdits = 0

Next ==
  \/ UserCreate
  \/ UserOpen
  \/ UserJoin
  \/ ListenUpdateAll
  \/ \E c \in calls : LifecycleResolved(c)
  \/ \E c \in calls : InvokeRejected(c)
  \/ \E c \in calls : GetTodosResolved(c)
  \/ \E c \in calls : GetListNameResolved(c)
  \/ \E c \in calls : TodoListsResolved(c)
  \/ \E c \in calls : BackendNewList(c)
  \/ \E c \in calls : BackendOpenList(c)
  \/ \E c \in calls : BackendSetTicket(c)
  \/ \E c \in calls : BackendGetTodos(c)
  \/ \E c \in calls : BackendGetListName(c)
  \/ \E c \in calls : BackendGetTodoLists(c)
  \/ \E d \in Docs : Edit(d)

Spec == Init /\ [][Next]_vars

\* A session in which the user opens lists one after the other while edits
\* arrive: the same program, with the inputs bounded separately.
SwitchOpen ==
  /\ showOpenList
  /\ Len(ops) < MaxSwitchOps
  /\ \E n \in Range(todoLists) : n # "" /\ OpenList(n)
  /\ UNCHANGED <<feVars, beVars, histVars, events, nEvents, nEdits>>

SwitchEdit(d) ==
  /\ nEdits < MaxSwitchEdits
  /\ EditDoc(d)

NextSwitch ==
  \/ SwitchOpen
  \/ ListenUpdateAll
  \/ \E c \in calls : LifecycleResolved(c)
  \/ \E c \in calls : InvokeRejected(c)
  \/ \E c \in calls : GetTodosResolved(c)
  \/ \E c \in calls : GetListNameResolved(c)
  \/ \E c \in calls : TodoListsResolved(c)
  \/ \E c \in calls : BackendOpenList(c)
  \/ \E c \in calls : BackendGetTodos(c)
  \/ \E c \in calls : BackendGetListName(c)
  \/ \E c \in calls : BackendGetTodoLists(c)
  \/ \E d \in Docs : SwitchEdit(d)

SpecSwitch == Init /\ [][NextSwitch]_vars

\* ------------------------------------------------------------ claims
\* every promise has been settled and handled, every event delivered
Quiescent == calls = {} /\ events = <<>>

OpIds == 1 .. Len(ops)

\* C1: a failed join leaves Session State unchanged: no callback of a
\* joinList whose set_ticket was rejected changes the view mode, the displayed
\* name or the displayed todos.
C1_FailedJoinLeavesSession ==
  \A i \in OpIds : ops[i].kind = "join" /\ ops[i].res = "err" => ~ops[i].wrote

\* C2: open(x) and then open(y) issued before the first has finished: once
\* all calls have returned, and unless the second was rejected, the session
\* shows y (name and todos) and y is the backend's active list.
C2_OverlappingOpensEndOnSecond ==
  ( /\ Quiescent
    /\ Len(ops) = 2
    /\ ops[1].kind = "open" /\ ops[2].kind = "open"
    /\ ops[1].arg # ops[2].arg
    /\ ops[2].overlap
    /\ ops[2].res = "ok" )
  => /\ name = ops[2].arg
     /\ allTodos = content[Lookup(registry, ops[2].arg)]
     /\ active = Lookup(registry, ops[2].arg)

\* C3: the view mode is one of selecting and viewing, and while it is viewing
\* the backend has an active document and a todos snapshot was fetched.
C3_ViewingRequiresActiveDocument ==
  /\ showOpenList \in BOOLEAN
  /\ ~showOpenList => active # None /\ shownDoc # None

C3_Witness == ~showOpenList /\ active # None /\ Quiescent

\* C4: the handling of an 'update-all' event never switches the view from
\* selecting to viewing and never changes the displayed list.
C4_EventsNeverSwitchSession == viewBy # "ev" /\ "ev" \notin nameBy

\* C5: a join overtaken by navigation is discarded: when a create or open
\* has moved the session to its list while set_ticket was still running, the
\* session ends on that list (name and todos).
C5_OvertakenJoinIsDiscarded ==
  \A i \in OpIds :
    Quiescent /\ ops[i].kind = "join" /\ ops[i].movedTo # None
    => /\ shownDoc = ops[i].movedTo
       /\ name = NameOf(registry, ops[i].movedTo)

\* C6: an 'update-all' event for a document is delivered only when the
\* session already shows that document (view mode viewing, its name).
C6_StateSwitchPrecedesDelivery ==
  [][ nEvents' = nEvents + 1
      => ~showOpenList /\ name = NameOf(registry, Head(events)) ]_vars

\* C7: at most one of new_list, open_list and set_ticket is in flight.
C7_OneLifecycleCommandInFlight ==
  Cardinality({c \in calls : c.cmd \in LifecycleCmds /\ c.stage = "sent"}) <= 1

\* C8: the view mode is never viewing while the displayed name is not the
\* name of the active list.
C8_ViewAndNameSetTogether ==
  ~showOpenList => active # None /\ name = NameOf(registry, active)

\* C9: a failed open or create leaves Session State unchanged: it starts no
\* getTodos chain and changes nothing displayed, and a document whose
\* creation failed is not left active.
C9_FailedOpenOrCreateLeavesSession ==
  \A i \in OpIds :
    ops[i].kind \in {"open", "create"} /\ ops[i].res = "err"
    => /\ ~ops[i].wrote
       /\ \A c \in calls : OpOf(c) = i => c.cmd \in {"new_list", "open_list"}
       /\ ops[i].kind = "create" /\ active = CreatedDoc
          => \E j \in OpIds : ops[j].kind = "create" /\ ops[j].res = "ok"

C9_Witness ==
  /\ Quiescent
  /\ \E i \in OpIds : ops[i].kind = "open" /\ ops[i].res = "err"
  /\ \E i \in OpIds : ops[i].kind = "create" /\ ops[i].res = "err"

OnlyOp(kind, arg) ==
  /\ Quiescent
  /\ Len(ops) = 1
  /\ ops[1].kind = kind /\ ops[1].arg = arg /\ ops[1].res = "ok"

\* C11, as stated: after a successful create(n) and no other operation, the
\* session is viewing with displayed name n, and the list of names the
\* consumer holds for display includes n.
C11_CreateShowsListAndSelectorKnowsIt ==
  \A n \in CreateNames :
    OnlyOp("create", n)
    => ~showOpenList /\ name = n /\ n \in Range(todoLists)

\* C11, amended: after a successful create(n) and no other operation, the
\* session is viewing with displayed name n and todos of the new list, and
\* the registry's list_all includes n.
C11_CreateShowsListAndRegistryKnowsIt ==
  \A n \in CreateNames :
    OnlyOp("create", n)
    => /\ ~showOpenList /\ name = n
       /\ allTodos = content[Lookup(registry, n)]
       /\ n \in Range(ListAll(registry))

C11_Witness == OnlyOp("create", "c")

\* C12: join("tk") from the initial state, the sync succeeds: once every
\* call and change notification has been processed the session is viewing
\* the joined document and displays its todos, the set every peer holds.
C12_JoinShowsSyncedTodos ==
  OnlyOp("join", "tk")
  => /\ ~showOpenList
     /\ shownDoc = RemoteDoc
     /\ name = RemoteName
     /\ allTodos = content[RemoteDoc]

\* C13: every 'update-all' event delivered starts a getTodos run, and once
\* the last one has been processed with no call pending, the displayed todos
\* and name are those of the active document.
C13_EventsLeadToCurrentView ==
  Quiescent /\ nEvents > 0
  => /\ active # None
     /\ allTodos = content[active]
     /\ name = NameOf(registry, active)

RegistryUnique(reg) ==
  \A i, j \in 1 .. Len(reg) :
    (reg[i][1] = reg[j][1] \/ reg[i][2] = reg[j][2]) => i = j

\* C16: registry uniqueness: no name and no document appears twice in the
\* registry, whatever creates and joins have run; a create whose name is
\* already taken fails, and a failing lifecycle command leaves the registry
\* unchanged.
C16_RegistryUniqueness ==
  /\ []RegistryUnique(registry)
  /\ [][ \A c \in calls \ calls' :
           /\ c.cmd = "new_list" /\ c.stage = "sent"
              /\ c.arg \in RegNames(registry)
              => Settle(c, "err", NoRes) \in calls'
           /\ c.cmd \in LifecycleCmds /\ c.stage = "sent"
              /\ Settle(c, "err", NoRes) \in calls'
              => registry' = registry ]_vars

\* two creates of the same new name in rapid succession: one registered it,
\* the other failed
C16_Witness ==
  /\ Len(registry) = 3
  /\ \E i, j \in OpIds :
       /\ ops[i].kind = "create" /\ ops[i].arg = "c" /\ ops[i].res = "ok"
       /\ ops[j].kind = "create" /\ ops[j].arg = "c" /\ ops[j].res = "err"

TwoJoins ==
  /\ Quiescent
  /\ Len(ops) = 2
  /\ \A i \in OpIds : ops[i].kind = "join" /\ ops[i].arg = "tk"
  /\ \E i \in OpIds : ops[i].res = "ok"

\* C17: join is idempotent: the registry never holds two entries for the
\* joined document, and when the same ticket is redeemed twice and both joins
\* succeed, the registry holds the one entry of the first join and the session
\* ends viewing that document, as an open of it would.
C17_JoinIsIdempotent ==
  /\ Cardinality({i \in 1 .. Len(registry) : registry[i][2] = RemoteDoc}) <= 1
  /\ TwoJoins /\ (\A i \in OpIds : ops[i].res = "ok")
     => /\ Cardinality({i \in 1 .. Len(registry) :
                          registry[i] = <<RemoteName, RemoteDoc>>}) = 1
        /\ active = RemoteDoc
        /\ ~showOpenList /\ shownDoc = RemoteDoc
        /\ name = RemoteName /\ allTodos = content[RemoteDoc]

C17_Witness == TwoJoins /\ (\A i \in OpIds : ops[i].res = "ok")

C20_ViewFollowsStoredSnapshot ==
  [][ showOpenList' # showOpenList
      => /\ ~showOpenList'
         /\ \E c \in calls \ calls' :
              /\ c.cmd = "get_todos" /\ c.stage = "ok"
              /\ allTodos' = c.res.items ]_vars

C20_Witness == ~showOpenList /\ allTodos # {}

====
